---- MODULE Spec2Model ----
(***************************************************************************)
(* Model of the Amazon Comprehend Medical plugin: the three recipes        *)
(* (rate-limited, retried API call per row or batch, parallel dispatch,    *)
(* formatting of the raw responses into columns, write of the output) and  *)
(* the response formatters of python-lib.                                   *)
(*                                                                         *)
(* Scores are hundredths (0.95 is 95).  Time is counted in ticks; the      *)
(* limiter and the sleeping workers keep ages and remaining delays instead *)
(* of absolute clock readings, so the state space is finite.               *)
(***************************************************************************)
EXTENDS Integers, Sequences, FiniteSets, TLC

VARIABLES
    cfg,          \* the recipe configuration read in the SETUP section
    input_df,     \* the input table: a sequence of rows
    stage,        \* position of the recipe script in its RUN section
    next_task,    \* index of the next row/batch the pool has not started
    pool,         \* per worker: what it is doing
    limiter,      \* the one RateLimitDecorator of the run: num_calls, age
    recent,       \* ages of the calls admitted less than Period ticks ago
    win_admits,   \* calls admitted since the limiter's last reset
    api_results,  \* per task: the outcome the dispatcher recorded
    client_calls, \* rows whose text was handed to the remote client
    df,           \* the table api_parallelizer returned
    output_df,    \* the table format_df returned
    written,      \* what write_with_schema wrote (<<>> before)
    described,    \* the column names set_column_description was given
    discarded_log \* per formatted row: the logged count of discarded entities

vars == <<cfg, input_df, stage, next_task, pool, limiter, recent, win_admits,
          api_results, client_calls, df, output_df, written,
          described, discarded_log>>

(***************************************************************************)
(* Bounds of the model.                                                    *)
(***************************************************************************)
MaxRows == 2
MaxWorkers == 2
MaxCalls == 2
MaxEntities == 2
Period == 2

\* tries=5 of the @retry decorator
MaxTries == 5

(***************************************************************************)
(* Generic helpers.                                                        *)
(***************************************************************************)
Range(s) == {s[i] : i \in DOMAIN s}

RECURSIVE SeqFilter(_, _)
SeqFilter(s, keep) ==
    IF s = <<>> THEN <<>>
    ELSE (IF keep[Head(s)] THEN <<Head(s)>> ELSE <<>>) \o SeqFilter(Tail(s), keep)

RECURSIVE SeqOfSet(_)
SeqOfSet(S) ==
    IF S = {} THEN <<>>
    ELSE LET x == CHOOSE y \in S : TRUE IN <<x>> \o SeqOfSet(S \ {x})

\* all sequences over S of length at most n
SeqsUpTo(S, n) == UNION {[1..k -> S] : k \in 0..n}

(***************************************************************************)
(* Cells of a table and JSON values.                                       *)
(* A cell is a string, a list of JSON values, or null.  A string cell      *)
(* that holds serialised JSON keeps the value it serialises (json.dumps);  *)
(* every other string is not valid JSON.                                   *)
(***************************************************************************)
StrCell(s) == [t |-> "str", s |-> s]
JsonCell(v) == [t |-> "json", v |-> v]
ListCell(l) == [t |-> "list", l |-> l]
NullCell == [t |-> "null"]
EmptyString == StrCell("")

JNum(n) == [j |-> "num", n |-> n]
JStr(s) == [j |-> "str", s |-> s]
JNull == [j |-> "null"]
JList(l) == [j |-> "list", l |-> l]
JObj(f) == [j |-> "obj", f |-> f]
EmptyObj == [j |-> "obj", f |-> <<>>]

\* dict.get(key, default)
Get(obj, key, default) == IF key \in DOMAIN obj.f THEN obj.f[key] ELSE default

(***************************************************************************)
(* Rows: an ordered mapping from column name to cell.                      *)
(***************************************************************************)
EmptyRow == [keys |-> <<>>, val |-> <<>>]
RowKeys(row) == Range(row.keys)
RowSet(row, k, v) ==
    IF k \in RowKeys(row)
    THEN [row EXCEPT !.val = [c \in DOMAIN row.val |-> IF c = k THEN v ELSE row.val[c]]]
    ELSE [keys |-> Append(row.keys, k),
          val |-> [c \in RowKeys(row) \cup {k} |-> IF c = k THEN v ELSE row.val[c]]]
RowGet(row, k) == row.val[k]

(***************************************************************************)
(* Enumerations, in definition order: name, and the lower-cased text the   *)
(* column names are built from.                                            *)
(***************************************************************************)
MedicalEntityTypeEnum ==
    << [name |-> "ANATOMY", lower |-> "anatomy"],
       [name |-> "MEDICAL_CONDITION", lower |-> "medical condition"],
       [name |-> "MEDICATION", lower |-> "medication"],
       [name |-> "PROTECTED_HEALTH_INFORMATION", lower |-> "protected health information"],
       [name |-> "TEST_TREATMENT_PROCEDURE", lower |-> "test treatment procedure"],
       [name |-> "TIME_EXPRESSION", lower |-> "time expression"] >>

MedicalPHITypeEnum ==
    << [name |-> "ADDRESS", lower |-> "address"],
       [name |-> "AGE", lower |-> "age"],
       [name |-> "DATE", lower |-> "date"],
       [name |-> "NAME", lower |-> "name"],
       [name |-> "PHONE_OR_FAX", lower |-> "phone or fax"],
       [name |-> "EMAIL", lower |-> "email"],
       [name |-> "ID", lower |-> "id"] >>

EntityTypeEnum ==
    << [name |-> "COMMERCIAL_ITEM", lower |-> "commercial_item"],
       [name |-> "DATE", lower |-> "date"],
       [name |-> "EVENT", lower |-> "event"],
       [name |-> "LOCATION", lower |-> "location"],
       [name |-> "ORGANIZATION", lower |-> "organization"],
       [name |-> "OTHER", lower |-> "other"],
       [name |-> "PERSON", lower |-> "person"],
       [name |-> "QUANTITY", lower |-> "quantity"],
       [name |-> "TITLE", lower |-> "title"] >>

EnumNames(enum) == {enum[i].name : i \in DOMAIN enum}

(***************************************************************************)
(* plugin_io_utils: column names, JSON parsing.                            *)
(***************************************************************************)
API_COLUMN_NAMES == <<"response", "error_message", "error_type", "error_raw">>

\* prefix + "_" + name, then "_2", "_3", ... until the name is unused
generate_unique(name, existing_names, prefix) ==
    LET new_name == prefix \o "_" \o name
        Candidate(j) == IF j = 1 THEN new_name ELSE new_name \o "_" \o ToString(j)
        j == CHOOSE k \in 1..(Cardinality(existing_names) + 1) :
                /\ Candidate(k) \notin existing_names
                /\ \A m \in 1..(k - 1) : Candidate(m) \in existing_names
    IN Candidate(j)

build_unique_column_names(existing_names, column_prefix) ==
    [k \in Range(API_COLUMN_NAMES) |-> generate_unique(k, existing_names, column_prefix)]

\* json.loads under the error-handling policy: a raise under FAIL, {} under LOG
safe_json_loads(cell, error_handling) ==
    IF cell.t = "json" THEN [ok |-> TRUE, v |-> cell.v]
    ELSE IF error_handling = "FAIL" THEN [ok |-> FALSE, err |-> "JSONDecodeError"]
    ELSE [ok |-> TRUE, v |-> EmptyObj]

\* the dispatch and derived columns go last, the input columns keep their order
move_api_columns_to_end(row, input_keys) ==
    LET isInput == [c \in RowKeys(row) |-> c \in input_keys]
        isApi == [c \in RowKeys(row) |-> c \notin input_keys]
    IN [row EXCEPT !.keys = SeqFilter(row.keys, isInput) \o SeqFilter(row.keys, isApi)]

(***************************************************************************)
(* The formatters.  A formatter object is a record of what __init__ keeps. *)
(* kind: "phi" (MedicalPhiAPIFormatter), "entity"                          *)
(* (MedicalEntityAPIFormatter), "ner" (NamedEntityRecognitionAPIFormatter).*)
(***************************************************************************)
ColumnPrefix(kind) ==
    CASE kind = "phi" -> "medical_phi_api"
      [] kind = "entity" -> "medical_entity_api"
      [] OTHER -> "entity_api"

EnumOf(kind) ==
    CASE kind = "phi" -> MedicalPHITypeEnum
      [] kind = "entity" -> MedicalEntityTypeEnum
      [] OTHER -> EntityTypeEnum

\* the key of an entity record that holds its category tag
TagKey(kind) == IF kind = "entity" THEN "Category" ELSE "Type"

\* the base name of a category's column
ColumnBase(kind, member) ==
    IF kind = "ner" THEN "entity_type_" \o member.lower
    ELSE "entity_type_" \o member.lower \o "_text"

GenericAPIFormatter(kind, input_keys, error_handling, entity_types, minimum_score) ==
    [kind |-> kind,
     input_keys |-> input_keys,
     column_prefix |-> ColumnPrefix(kind),
     error_handling |-> error_handling,
     api_column_names |-> build_unique_column_names(input_keys, ColumnPrefix(kind)),
     entity_types |-> entity_types,
     minimum_score |-> minimum_score]

\* _compute_column_description: the dispatch columns, then one entry per
\* member of the formatter's enumeration, named against the input columns
RECURSIVE DescribeMembers(_, _, _)
DescribeMembers(self, members, dict) ==
    IF members = <<>> THEN dict
    ELSE LET m == Head(members)
             col == generate_unique(ColumnBase(self.kind, m), self.input_keys,
                                    self.column_prefix)
             keys == DOMAIN dict \cup {col}
         IN DescribeMembers(self, Tail(members),
                [c \in keys |-> IF c = col THEN "entities:" \o m.name ELSE dict[c]])

\* column_description_dict without the entries of the dispatch columns
column_description_dict_NoDispatch(self) ==
    DescribeMembers(self, EnumOf(self.kind), <<>>)

column_description_dict(self) ==
    LET names == self.api_column_names
        cols == {names[k] : k \in DOMAIN names}
        base == [c \in cols |-> CHOOSE k \in DOMAIN names : names[k] = c]
    IN DescribeMembers(self, EnumOf(self.kind), base)

\* a format_row that writes a column for every member of the enumeration
WrittenMembers_All(self) == EnumOf(self.kind)

\* the members format_row writes a column for, in the order it writes them
WrittenMembers(self) ==
    IF self.kind = "phi" THEN MedicalPHITypeEnum
    ELSE LET enum == EnumOf(self.kind)
         IN SeqFilter(enum, [m \in Range(enum) |-> m.name \in self.entity_types])

IsDict(v) == v.j = "obj"
FloatOk(v) == v.j = "num"
ScoreOf(e) == Get(e, "Score", JNum(0))

\* KeepsEntity without the comparison of the score with minimum_score
KeepsEntity_NoThreshold(self, e, member) ==
    Get(e, TagKey(self.kind), JStr("")) = JStr(member.name)

\* the condition of a category column's list comprehension
KeepsEntity(self, e, member) ==
    /\ Get(e, TagKey(self.kind), JStr("")) = JStr(member.name)
    /\ self.kind # "ner" => ScoreOf(e).n >= self.minimum_score

\* the condition of the discarded_entities list comprehension
IsDiscarded(self, e) ==
    /\ ScoreOf(e).n < self.minimum_score
    /\ \E name \in EnumNames(MedicalEntityTypeEnum) :
            Get(e, TagKey(self.kind), JStr("")) = JStr(name)

\* a list comprehension that puts the kept texts out last one first
EntityTexts_Reversed(self, entities, member) ==
    LET kept == SeqFilter(entities,
                    [e \in Range(entities) |-> KeepsEntity(self, e, member)])
        n == Len(kept)
    IN [i \in DOMAIN kept |-> Get(kept[n + 1 - i], "Text", JStr(""))]

EntityTexts(self, entities, member) ==
    LET kept == SeqFilter(entities,
                    [e \in Range(entities) |-> KeepsEntity(self, e, member)])
    IN [i \in DOMAIN kept |-> Get(kept[i], "Text",
                                  IF self.kind = "ner" THEN JNull ELSE JStr(""))]

RECURSIVE WriteColumns(_, _, _, _)
WriteColumns(self, row, entities, members) ==
    IF members = <<>> THEN row
    ELSE LET m == Head(members)
             entity_type_column == generate_unique(ColumnBase(self.kind, m),
                                        RowKeys(row), self.column_prefix)
             texts == EntityTexts(self, entities, m)
             cell == IF Len(texts) = 0 THEN EmptyString ELSE ListCell(texts)
         IN WriteColumns(self, RowSet(row, entity_type_column, cell), entities,
                         Tail(members))

\* the body of format_row, with the policy it hands to safe_json_loads
FormatRowUnder(self, row, error_handling) ==
    LET parsed == safe_json_loads(RowGet(row, self.api_column_names["response"]),
                                  error_handling)
    IN IF ~parsed.ok THEN [ok |-> FALSE, err |-> parsed.err]
       ELSE IF ~IsDict(parsed.v) THEN [ok |-> FALSE, err |-> "AttributeError"]
       ELSE LET ents == Get(parsed.v, "Entities", JList(<<>>))
            IN IF ents.j # "list" THEN [ok |-> FALSE, err |-> "TypeError"]
               ELSE IF \E i \in DOMAIN ents.l : ~IsDict(ents.l[i])
                    THEN [ok |-> FALSE, err |-> "AttributeError"]
               ELSE IF /\ self.kind # "ner"
                       /\ \E i \in DOMAIN ents.l : ~FloatOk(ScoreOf(ents.l[i]))
                    THEN [ok |-> FALSE, err |-> "TypeError"]
               ELSE [ok |-> TRUE,
                     row |-> WriteColumns(self, row, ents.l, WrittenMembers(self)),
                     discarded |->
                        IF self.kind = "ner" THEN 0
                        ELSE Len(SeqFilter(ents.l,
                                [e \in Range(ents.l) |-> IsDiscarded(self, e)]))]

\* format_row with the policy left out of its call of safe_json_loads
format_row_DefaultPolicy(self, row) == FormatRowUnder(self, row, "LOG")

\* format_row: the row with its category columns, or the exception raised
format_row(self, row) == FormatRowUnder(self, row, self.error_handling)

\* format_df that leaves out the rows without a response
format_df_DropsEmpty(self, table) ==
    LET kept == SeqFilter(table, [r \in Range(table) |->
                    RowGet(r, self.api_column_names["response"]) # EmptyString])
        rows == [i \in DOMAIN kept |-> format_row(self, kept[i])]
    IN IF \E i \in DOMAIN rows : ~rows[i].ok
       THEN [ok |-> FALSE, err |-> "Exception"]
       ELSE [ok |-> TRUE,
             df |-> [i \in DOMAIN rows |->
                        move_api_columns_to_end(rows[i].row, self.input_keys)],
             discarded |-> [i \in DOMAIN rows |-> rows[i].discarded]]

\* format_df with the rows put out last row first
format_df_Reversed(self, table) ==
    LET n == Len(table)
        rows == [i \in DOMAIN table |-> format_row(self, table[n + 1 - i])]
    IN IF \E i \in DOMAIN rows : ~rows[i].ok
       THEN [ok |-> FALSE, err |-> "Exception"]
       ELSE [ok |-> TRUE,
             df |-> [i \in DOMAIN rows |->
                        move_api_columns_to_end(rows[i].row, self.input_keys)],
             discarded |-> [i \in DOMAIN rows |-> rows[i].discarded]]

\* format_df: format_row on every row in order, then the column move; the
\* first exception of a row is the exception of the whole call
format_df(self, table) ==
    LET rows == [i \in DOMAIN table |-> format_row(self, table[i])]
    IN IF \E i \in DOMAIN rows : ~rows[i].ok
       THEN [ok |-> FALSE,
             err |-> rows[CHOOSE i \in DOMAIN rows :
                            ~rows[i].ok /\ \A k \in 1..(i - 1) : rows[k].ok].err]
       ELSE [ok |-> TRUE,
             df |-> [i \in DOMAIN rows |->
                        move_api_columns_to_end(rows[i].row, self.input_keys)],
             discarded |-> [i \in DOMAIN rows |-> rows[i].discarded]]

(***************************************************************************)
(* The recipes: configuration, input table, call functions.                *)
(* recipe: "entity" (medical entity recognition), "phi" (medical PHI),     *)
(* "ner" (named entity recognition, the one recipe with a batch mode).     *)
(***************************************************************************)
BatchSize == 2
TextColumn == "text"
IdColumn == "id"
\* input_df.keys()
InputKeys == RowKeys(input_df[1])

\* the text cells a row may hold: a text, whitespace only, not a string
TextCells == {StrCell("aspirin"), StrCell(" "), NullCell}

RECURSIVE WithColumns(_, _)
WithColumns(row, names) ==
    IF names = <<>> THEN row
    ELSE WithColumns(RowSet(row, Head(names), EmptyString), Tail(names))

\* row i of the input table: its id, its text, and the other columns it has
InputRow(i, text, others) ==
    WithColumns(RowSet(RowSet(EmptyRow, IdColumn, StrCell(ToString(i))),
                       TextColumn, text), others)

\* str(text).strip()
StrStrip(cell) ==
    IF cell.t = "null" THEN "None"
    ELSE IF cell.s = " " THEN "" ELSE cell.s

\* not isinstance(text, str) or str(text).strip() == ""
IsBlank(cell) == cell.t # "str" \/ StrStrip(cell) = ""

NRows == Len(input_df)
NTasks == IF cfg.batch THEN (NRows + BatchSize - 1) \div BatchSize ELSE NRows
\* the rows of task t, in table order
TaskRows(t) ==
    IF cfg.batch
    THEN [k \in 1..(IF t * BatchSize <= NRows THEN BatchSize
                    ELSE NRows - (t - 1) * BatchSize) |-> (t - 1) * BatchSize + k]
    ELSE <<t>>

api_formatter ==
    GenericAPIFormatter(cfg.recipe, InputKeys, cfg.error_handling, cfg.entity_types,
                        cfg.minimum_score)

(***************************************************************************)
(* The remote service.  A single-row call answers a dictionary with the    *)
(* request id of the call and a list of well-formed entity records; a      *)
(* batch call answers a ResultList and an ErrorList keyed by Index.        *)
(***************************************************************************)
ServiceEntity(kind, tag, text, score) ==
    JObj([k \in {TagKey(kind), "Text", "Score"} |->
            CASE k = "Text" -> JStr(text)
              [] k = "Score" -> JNum(score)
              [] OTHER -> JStr(tag)])

ServiceTag(kind) == EnumOf(kind)[1].name

ServiceEntityLists(kind) ==
    { <<>>, <<ServiceEntity(kind, ServiceTag(kind), "aspirin", 95)>> }

ServiceResponse(i, entities) ==
    JObj([k \in {"Entities", "RequestId"} |->
            IF k = "Entities" THEN JList(entities) ELSE JNum(i)])

\* what one position of a batch may come back as
BatchOutcomes == {"result", "error", "neither"}

BatchEntry(pos, row, outcome, entities) ==
    IF outcome = "result"
    THEN JObj([k \in {"Index", "Entities", "RequestId"} |->
                CASE k = "Index" -> JNum(pos)
                  [] k = "Entities" -> JList(entities)
                  [] OTHER -> JNum(row)])
    ELSE JObj([k \in {"Index", "ErrorCode", "ErrorMessage"} |->
                CASE k = "Index" -> JNum(pos)
                  [] k = "ErrorCode" -> JStr("INTERNAL_SERVER_ERROR")
                  [] OTHER -> JStr("m")])

\* the response of batch_detect_entities for rows `rows` with the per-position
\* outcomes `outs`; positions are 0-based as in the service
BatchResponse(rows, outs, entities) ==
    LET pos == [k \in DOMAIN rows |-> k]
        entry(k) == BatchEntry(k - 1, rows[k], outs[k], entities)
        res == SeqFilter(pos, [k \in DOMAIN rows |-> outs[k] = "result"])
        errs == SeqFilter(pos, [k \in DOMAIN rows |-> outs[k] = "error"])
    IN JObj([k \in {"ResultList", "ErrorList"} |->
                IF k = "ResultList" THEN JList([n \in DOMAIN res |-> entry(res[n])])
                ELSE JList([n \in DOMAIN errs |-> entry(errs[n])])])

(***************************************************************************)
(* The exceptions a call may end in, and the ones @retry retries.          *)
(***************************************************************************)
RETRY_EXCEPTIONS == {"RateLimitException", "OSError"}
API_EXCEPTIONS == {"Boto3Error", "BotoCoreError", "ClientError"}
\* what the remote client may raise
ClientRaises == {"OSError", "ClientError"}

(***************************************************************************)
(* The rate limiter and the retry loop around a call function.             *)
(***************************************************************************)
\* a worker: where it is, its row or batch, the tries left and the sleep left of
\* the retry loop, and of the task it has or had last: the calls made, what the
\* last one ended in and how many ended in an exception @retry does not retry
Idle == [pc |-> "idle", task |-> 0, tries |-> 0, wait |-> 0,
         attempts |-> 0, last |-> "none", fatal |-> 0]
Pending == [st |-> "pending"]

\* RateLimitDecorator: the count of this period after one more call
CountCall(lim) == (IF lim.age >= Period THEN 0 ELSE lim.num_calls) + 1
\* the call is let through to the function
Admits(num_calls, calls) == num_calls <= calls

\* a retry loop that stops one try sooner
Retries_OneLess(err, tries) == err \in RETRY_EXCEPTIONS /\ tries - 1 > 1

\* a retry loop that stops one try later
Retries_OneMore(err, tries) == err \in RETRY_EXCEPTIONS /\ tries > 0

\* __retry_internal: the exception is one @retry retries and tries are left
Retries(err, tries) == err \in RETRY_EXCEPTIONS /\ tries - 1 > 0
\* the delay of the sleep before the next try
RetryDelay == Period

Logged(worker, outcome) ==
    [worker EXCEPT !.attempts = @ + 1, !.last = outcome,
                   !.fatal = @ + (IF outcome \in RETRY_EXCEPTIONS \cup {"ok"} THEN 0 ELSE 1)]

\* the future of worker w completes with `outcome` after a call ending in `last`
Finish(w, outcome, last) ==
    /\ pool' = [pool EXCEPT ![w] = [Logged(@, last) EXCEPT !.pc = "idle"]]
    /\ IF outcome.st = "error" /\ cfg.error_handling = "FAIL"
       THEN /\ stage' = "raised"
            /\ UNCHANGED api_results
       ELSE /\ api_results' = [api_results EXCEPT ![pool[w].task] = outcome]
            /\ UNCHANGED stage

\* the call of worker w raised `err`
AfterException(w, err) ==
    IF Retries(err, pool[w].tries)
    THEN /\ pool' = [pool EXCEPT ![w] = [Logged(@, err) EXCEPT !.pc = "sleep",
                                                               !.tries = @ - 1,
                                                               !.wait = RetryDelay]]
         /\ UNCHANGED <<api_results, stage>>
    ELSE Finish(w, [st |-> "error", err |-> err], err)

\* the call of worker w returned `resp`
AfterReturn(w, resp) == Finish(w, [st |-> "ok", resp |-> resp], "ok")

\* a call function without the test of its row
ShortCircuits_Never(t) == FALSE

\* the call function's own test of its row, before any use of the client
ShortCircuits(t) == ~cfg.batch /\ IsBlank(RowGet(input_df[t], TextColumn))

\* what the client is handed for task t: (row, text) pairs
ClientInput(t) ==
    LET rows == TaskRows(t)
        text(i) == RowGet(input_df[i], TextColumn)
    IN {<<rows[k], IF cfg.batch THEN StrCell(StrStrip(text(rows[k])))
                   ELSE text(rows[k])>> : k \in DOMAIN rows}

(***************************************************************************)
(* api_parallelizer: the pool, and the assembly of the result table.       *)
(***************************************************************************)
Workers == 1..MaxWorkers

\* pool.submit: a free worker starts the next row or batch
TakeTask(w) ==
    /\ stage = "dispatch"
    /\ w <= cfg.workers
    /\ pool[w].pc = "idle"
    /\ next_task <= NTasks
    /\ pool' = [pool EXCEPT ![w] = [Idle EXCEPT !.pc = "call", !.task = next_task,
                                                !.tries = MaxTries]]
    /\ next_task' = next_task + 1
    /\ UNCHANGED <<cfg, input_df, stage, limiter, recent, win_admits, api_results,
                   client_calls, df, output_df, written, described,
                   discarded_log>>

\* one try of the decorated call function, up to the client call
Invoke(w) ==
    /\ stage = "dispatch"
    /\ pool[w].pc = "call"
    /\ LET n == CountCall(limiter)
           reset == limiter.age >= Period
       IN /\ limiter' = [num_calls |-> n, age |-> IF reset THEN 0 ELSE limiter.age]
          /\ IF ~Admits(n, cfg.calls)
             THEN /\ AfterException(w, "RateLimitException")
                  /\ win_admits' = IF reset THEN 0 ELSE win_admits
                  /\ UNCHANGED <<recent, client_calls>>
             ELSE /\ win_admits' = (IF reset THEN 0 ELSE win_admits) + 1
                  /\ recent' = [recent EXCEPT ![0] = @ + 1]
                  /\ IF ShortCircuits(pool[w].task)
                     THEN /\ AfterReturn(w, EmptyString)
                          /\ UNCHANGED client_calls
                     ELSE /\ pool' = [pool EXCEPT ![w].pc = "remote"]
                          /\ client_calls' = client_calls \cup ClientInput(pool[w].task)
                          /\ UNCHANGED <<api_results, stage>>
    /\ UNCHANGED <<cfg, input_df, next_task, df, output_df, written, described,
                   discarded_log>>

\* the client call of worker w returns
RemoteReturns(w) ==
    /\ stage = "dispatch"
    /\ pool[w].pc = "remote"
    /\ LET rows == TaskRows(pool[w].task)
       IN \E entities \in cfg.service :
            IF cfg.batch
            THEN \E outs \in [DOMAIN rows -> BatchOutcomes] :
                    IF cfg.error_handling = "FAIL" /\ "error" \in Range(outs)
                    THEN Finish(w, [st |-> "error", err |-> "INTERNAL_SERVER_ERROR"],
                                "ok")
                    ELSE AfterReturn(w, BatchResponse(rows, outs, entities))
            ELSE AfterReturn(w, JsonCell(ServiceResponse(rows[1], entities)))
    /\ UNCHANGED <<cfg, input_df, next_task, limiter, recent, win_admits,
                   client_calls, df, output_df, written, described, discarded_log>>

\* the client call of worker w raises
RemoteRaises(w) ==
    /\ stage = "dispatch"
    /\ pool[w].pc = "remote"
    /\ \E err \in ClientRaises : AfterException(w, err)
    /\ UNCHANGED <<cfg, input_df, next_task, limiter, recent, win_admits,
                   client_calls, df, output_df, written, described, discarded_log>>

\* time.sleep(delay) of the retry loop is over
Wake(w) ==
    /\ stage = "dispatch"
    /\ pool[w].pc = "sleep"
    /\ pool[w].wait = 0
    /\ pool' = [pool EXCEPT ![w].pc = "call"]
    /\ UNCHANGED <<cfg, input_df, stage, next_task, limiter, recent, win_admits,
                   api_results, client_calls, df, output_df, written,
                   described, discarded_log>>

\* one tick of the clock
Tick ==
    /\ stage = "dispatch"
    /\ limiter' = [limiter EXCEPT !.age = IF @ < Period THEN @ + 1 ELSE @]
    /\ pool' = [w \in Workers |-> [pool[w] EXCEPT !.wait = IF @ > 0 THEN @ - 1 ELSE 0]]
    /\ recent' = [a \in 0..(Period - 1) |-> IF a = 0 THEN 0 ELSE recent[a - 1]]
    /\ <<limiter', pool', recent'>> # <<limiter, pool, recent>>
    /\ UNCHANGED <<cfg, input_df, stage, next_task, win_admits, api_results,
                   client_calls, df, output_df, written, described,
                   discarded_log>>

\* the four dispatch cells of a row: response, error message, type, raw
Success(resp) ==
    [response |-> resp, error_message |-> EmptyString, error_type |-> EmptyString,
     error_raw |-> EmptyString]
Failure(message, type) ==
    [response |-> EmptyString, error_message |-> StrCell(message),
     error_type |-> StrCell(type), error_raw |-> StrCell("raw:" \o message)]

\* the entries of a batch list whose Index is pos
EntriesAt(list, pos) ==
    SeqFilter(list.l, [e \in Range(list.l) |-> Get(e, "Index", JNull) = JNum(pos)])

\* an unpacking that reads the ResultList alone
BatchRowOutcome_ResultsOnly(resp, pos) ==
    LET results == EntriesAt(Get(resp, "ResultList", JList(<<>>)), pos)
    IN IF results # <<>> THEN Success(JsonCell(results[1])) ELSE Success(EmptyString)

\* the outcome of the row at 0-based position pos of a batch answered by resp
BatchRowOutcome(resp, pos) ==
    LET results == EntriesAt(Get(resp, "ResultList", JList(<<>>)), pos)
        errors == EntriesAt(Get(resp, "ErrorList", JList(<<>>)), pos)
    IN IF results # <<>> THEN Success(JsonCell(results[1]))
       ELSE IF errors # <<>>
       THEN Failure(Get(errors[1], "ErrorMessage", JStr("")).s,
                    Get(errors[1], "ErrorCode", JStr("")).s)
       ELSE Success(EmptyString)

\* the outcome recorded for row i
RowOutcome(i) ==
    LET t == IF cfg.batch THEN ((i - 1) \div BatchSize) + 1 ELSE i
        pos == IF cfg.batch THEN (i - 1) % BatchSize ELSE 0
        r == api_results[t]
    IN IF r.st = "error" THEN Failure("msg:" \o r.err, r.err)
       ELSE IF cfg.batch THEN BatchRowOutcome(r.resp, pos)
       ELSE Success(r.resp)

RECURSIVE WithCells(_, _, _, _)
WithCells(row, names, cells, keys) ==
    IF keys = <<>> THEN row
    ELSE WithCells(RowSet(row, names[Head(keys)], cells[Head(keys)]), names, cells,
                   Tail(keys))

\* row i of the table the dispatcher returns
DispatchRow(i) ==
    WithCells(input_df[i], build_unique_column_names(InputKeys, ColumnPrefix(cfg.recipe)),
              RowOutcome(i), API_COLUMN_NAMES)

\* every call is over: the results are put together in index order
Assemble ==
    /\ stage = "dispatch"
    /\ \A t \in 1..NTasks : api_results[t].st # "pending"
    /\ df' = [i \in 1..NRows |-> DispatchRow(i)]
    /\ stage' = "dispatched"
    /\ UNCHANGED <<cfg, input_df, next_task, pool, limiter, recent, win_admits,
                   api_results, client_calls, output_df, written,
                   described, discarded_log>>

(***************************************************************************)
(* The rest of the RUN section of a recipe.                                *)
(***************************************************************************)
\* output_df = api_formatter.format_df(df)
FormatDf ==
    /\ stage = "dispatched"
    /\ LET r == format_df(api_formatter, df)
       IN IF r.ok
          THEN /\ output_df' = r.df
               /\ discarded_log' = r.discarded
               /\ stage' = "formatted"
          ELSE /\ stage' = "raised"
               /\ UNCHANGED <<output_df, discarded_log>>
    /\ UNCHANGED <<cfg, input_df, next_task, pool, limiter, recent, win_admits,
                   api_results, client_calls, df, written, described>>

\* the statement of the script that write_with_schema is
ReachesWrite == stage = "formatted"

\* output_dataset.write_with_schema(output_df)
WriteWithSchema ==
    /\ ReachesWrite
    /\ written' = [done |-> TRUE, table |-> output_df]
    /\ stage' = "written"
    /\ UNCHANGED <<cfg, input_df, next_task, pool, limiter, recent, win_admits,
                   api_results, client_calls, df, output_df, described,
                   discarded_log>>

\* set_column_description(..., api_formatter.column_description_dict)
SetColumnDescription ==
    /\ stage = "written"
    /\ described' = [done |-> TRUE, columns |-> DOMAIN column_description_dict(api_formatter)]
    /\ stage' = "described"
    /\ UNCHANGED <<cfg, input_df, next_task, pool, limiter, recent, win_admits,
                   api_results, client_calls, df, output_df, written,
                   discarded_log>>

(***************************************************************************)
(* Configurations and the specification of a whole run.                    *)
(***************************************************************************)
Recipes == {"entity", "phi", "ner"}
MinimumScores == {0, 90, 100}

\* the selections of entity types a caller may make
Selections(recipe) ==
    IF recipe = "phi" THEN {{}}
    ELSE LET enum == EnumOf(recipe)
         IN {{}, {enum[1].name}, {enum[1].name, enum[3].name}, EnumNames(enum)}

Config(recipe, batch, policy, workers, calls, score, types, service) ==
    [recipe |-> recipe, batch |-> batch, error_handling |-> policy,
     workers |-> workers, calls |-> calls, minimum_score |-> score,
     entity_types |-> types, service |-> service]

\* the pool and the limiter before the first call
FreshPool ==
    /\ next_task = 1
    /\ pool = [w \in Workers |-> Idle]
    /\ limiter = [num_calls |-> 0, age |-> 0]
    /\ recent = [a \in 0..(Period - 1) |-> 0]
    /\ win_admits = 0
    /\ client_calls = {}

\* nothing formatted or written yet
FreshOutput ==
    /\ output_df = <<>>
    /\ written = [done |-> FALSE, table |-> <<>>]
    /\ described = [done |-> FALSE, columns |-> {}]
    /\ discarded_log = <<>>

\* the state of a run before its first call
Fresh ==
    /\ stage = "dispatch"
    /\ api_results = [t \in 1..NTasks |-> Pending]
    /\ df = <<>>
    /\ FreshPool
    /\ FreshOutput

Init ==
    /\ \E recipe \in Recipes, policy \in {"LOG", "FAIL"}, workers \in 1..MaxWorkers,
          calls \in 1..MaxCalls, batch \in BOOLEAN :
            /\ batch => recipe = "ner"
            /\ cfg = Config(recipe, batch, policy, workers, calls, 90,
                            {EnumOf(recipe)[1].name}, ServiceEntityLists(recipe))
    /\ \E n \in 1..MaxRows : \E texts \in [1..n -> TextCells] :
            input_df = [i \in 1..n |-> InputRow(i, texts[i], <<>>)]
    /\ Fresh

Next ==
    \/ \E w \in Workers : TakeTask(w)
    \/ \E w \in Workers : Invoke(w)
    \/ \E w \in Workers : RemoteReturns(w)
    \/ \E w \in Workers : RemoteRaises(w)
    \/ \E w \in Workers : Wake(w)
    \/ Tick
    \/ Assemble
    \/ FormatDf
    \/ WriteWithSchema
    \/ SetColumnDescription

Spec == Init /\ [][Next]_vars

(***************************************************************************)
(* The scenario of ten rows under a limit of two calls per period: the     *)
(* only exception a call meets is the limiter's own RateLimitException.    *)
(***************************************************************************)
InitScenario ==
    /\ \E workers \in 1..MaxWorkers :
            cfg = Config("entity", FALSE, "LOG", workers, 2, 90, {"ANATOMY"},
                         {<<ServiceEntity("entity", "ANATOMY", "aspirin", 95)>>})
    /\ input_df = [i \in 1..10 |-> InputRow(i, StrCell("aspirin"), <<>>)]
    /\ Fresh

\* the steps of the threads of the pool and of the clock
PoolScenario ==
    \/ \E w \in Workers : TakeTask(w)
    \/ \E w \in Workers : Invoke(w)
    \/ \E w \in Workers : RemoteReturns(w)
    \/ \E w \in Workers : Wake(w)
    \/ Tick

NextScenario ==
    \/ PoolScenario
    \/ Assemble
    \/ FormatDf
    \/ WriteWithSchema
    \/ SetColumnDescription

\* the threads of the pool run and the clock advances
SpecScenario == InitScenario /\ [][NextScenario]_vars /\ WF_vars(PoolScenario)

(***************************************************************************)
(* format_df on one dispatched row of any content.                         *)
(***************************************************************************)
FmtTags(kind) == {EnumOf(kind)[1].name, EnumOf(kind)[2].name, "ANATOMY", "UNKNOWN"}

\* an entity record; score -1 stands for a record without a Score key
FmtEntity(kind, tag, text, score) ==
    IF score >= 0 THEN ServiceEntity(kind, tag, text, score)
    ELSE JObj([k \in {TagKey(kind), "Text"} |->
                IF k = "Text" THEN JStr(text) ELSE JStr(tag)])

FmtEntities(kind) ==
    {FmtEntity(kind, tag, ts[1], ts[2]) :
        tag \in FmtTags(kind), ts \in {<<"a", 50>>, <<"b", 95>>, <<"a", 95>>, <<"b", -1>>}}

\* valid JSON that is not of the shape of an answer: null, an object whose
\* Entities is null, an entity whose Score is null
FmtMisshapen(kind) ==
    {JNull,
     JObj([k \in {"Entities"} |-> JNull]),
     JObj([k \in {"Entities"} |->
            JList(<<JObj([k2 \in {TagKey(kind), "Text", "Score"} |->
                            CASE k2 = "Text" -> JStr("a")
                              [] k2 = "Score" -> JNull
                              [] OTHER -> JStr(EnumOf(kind)[1].name)])>>)])}

FmtOutcomes(kind) ==
    {Success(EmptyString), Success(StrCell("<html>")), Success(JsonCell(EmptyObj)),
     Failure("msg:ClientError", "ClientError")}
    \cup {Success(JsonCell(v)) : v \in FmtMisshapen(kind)}
    \cup {Success(JsonCell(ServiceResponse(1, ents))) :
            ents \in SeqsUpTo(FmtEntities(kind), MaxEntities)}

\* columns the input table may have beside id and text
OtherColumns(kind) ==
    {<<>>,
     <<generate_unique(ColumnBase(kind, EnumOf(kind)[1]), {}, ColumnPrefix(kind))>>,
     <<generate_unique("response", {}, ColumnPrefix(kind))>>}

InitFmt ==
    /\ \E recipe \in Recipes, policy \in {"LOG", "FAIL"}, score \in MinimumScores :
       \E types \in Selections(recipe), others \in OtherColumns(recipe) :
       \E outcome \in FmtOutcomes(recipe) :
            /\ policy = "FAIL" => outcome.error_type = EmptyString
            /\ cfg = Config(recipe, FALSE, policy, 1, 1, score, types, {})
            /\ input_df = <<InputRow(1, StrCell("aspirin"), others)>>
            /\ df = <<WithCells(input_df[1],
                        build_unique_column_names(InputKeys, ColumnPrefix(recipe)),
                        outcome, API_COLUMN_NAMES)>>
            /\ api_results = <<IF outcome.error_type = EmptyString
                               THEN [st |-> "ok", resp |-> outcome.response]
                               ELSE [st |-> "error", err |-> outcome.error_type.s]>>
    /\ stage = "dispatched"
    /\ FreshPool
    /\ FreshOutput

NextFmt ==
    \/ FormatDf
    \/ WriteWithSchema
    \/ SetColumnDescription

SpecFmt == InitFmt /\ [][NextFmt]_vars

(***************************************************************************)
(* Vocabulary of the properties.                                           *)
(***************************************************************************)
Formatted == stage \in {"formatted", "written", "described"}
Dispatched == stage \in {"dispatched", "formatted", "written", "described"}

ApiColumn(k) == api_formatter.api_column_names[k]

\* the entity records of the response row i of the dispatch table holds
ResponseEntities(i) ==
    LET cell == RowGet(df[i], ApiColumn("response"))
    IN IF cell.t = "json" /\ IsDict(cell.v)
       THEN Get(cell.v, "Entities", JList(<<>>)).l
       ELSE <<>>

\* the columns format_row added to row i
DerivedColumns(i) == RowKeys(output_df[i]) \ RowKeys(df[i])

\* the values a cell lists (none for the empty string)
Listed(cell) == IF cell.t = "list" THEN cell.l ELSE <<>>

RECURSIVE Sum(_, _)
Sum(f, S) ==
    IF S = {} THEN 0
    ELSE LET x == CHOOSE y \in S : TRUE IN f[x] + Sum(f, S \ {x})

\* how often value x is listed in the derived columns of row i
Emitted(i, x) ==
    LET cols == DerivedColumns(i)
    IN Sum([c \in cols |->
              Cardinality({k \in DOMAIN Listed(RowGet(output_df[i], c)) :
                              Listed(RowGet(output_df[i], c))[k] = x})], cols)

\* how many entity records of row i's response have text x and reach the threshold
AboveThreshold(i, x) ==
    Cardinality({k \in DOMAIN ResponseEntities(i) :
                    /\ Get(ResponseEntities(i)[k], "Text", JStr("")) = x
                    /\ ScoreOf(ResponseEntities(i)[k]).n >= cfg.minimum_score})

EmittedValues(i) ==
    UNION {Range(Listed(RowGet(output_df[i], c))) : c \in DerivedColumns(i)}

(***************************************************************************)
(* C1.  The PHI and the medical-entity formatter never put an entity       *)
(* record whose Score is below minimum_score into a category column: each  *)
(* text is listed in the category columns of a row at most as often as the *)
(* response holds records with that text and a Score of at least           *)
(* minimum_score (so a text whose records are all below the threshold is   *)
(* listed nowhere).                                                        *)
(***************************************************************************)
C1_BelowThresholdNeverEmitted ==
    (Formatted /\ cfg.recipe \in {"phi", "entity"}) =>
        \A i \in DOMAIN output_df :
            \A x \in EmittedValues(i) : Emitted(i, x) <= AboveThreshold(i, x)

\* minimum_score 0.9, two entities of one category scored 0.5 and 0.95: the
\* column of the category holds the text of the second only
C1_Witness ==
    /\ Formatted
    /\ cfg.recipe \in {"phi", "entity"}
    /\ cfg.minimum_score = 90
    /\ \E tag \in EnumNames(EnumOf(cfg.recipe)) :
        /\ ResponseEntities(1) = <<FmtEntity(cfg.recipe, tag, "a", 50),
                                   FmtEntity(cfg.recipe, tag, "b", 95)>>
        /\ \E c \in DerivedColumns(1) :
                RowGet(output_df[1], c) = ListCell(<<JStr("b")>>)

\* the columns the run added to row i of the output
ProducedColumns(i) == RowKeys(output_df[i]) \ InputKeys
DescriptionKeys == DOMAIN column_description_dict(api_formatter)

\* the column names of the categories format_row writes no column for
UnwrittenColumns ==
    LET enum == EnumOf(cfg.recipe)
        written_names == EnumNames(WrittenMembers(api_formatter))
    IN {generate_unique(ColumnBase(cfg.recipe, enum[k]), InputKeys,
                        ColumnPrefix(cfg.recipe)) :
            k \in {n \in DOMAIN enum : enum[n].name \notin written_names}}

(***************************************************************************)
(* C10.  As claimed: the keys of column_description_dict are exactly the   *)
(* columns the run adds to the output table.                               *)
(***************************************************************************)
C10_KeysEqualProduced ==
    Formatted => \A i \in DOMAIN output_df : DescriptionKeys = ProducedColumns(i)

(***************************************************************************)
(* C10, amended.  Every column the run adds has an entry; the keys are the *)
(* four dispatch columns and one column per category of the formatter's    *)
(* whole enumeration, so the entries without a column are exactly those of *)
(* the categories that were not selected.                                  *)
(***************************************************************************)
C10_KeysCoverProduced ==
    Formatted =>
        \A i \in DOMAIN output_df :
            /\ ProducedColumns(i) \subseteq DescriptionKeys
            /\ DescriptionKeys \ ProducedColumns(i) = UnwrittenColumns
            /\ Cardinality(DescriptionKeys)
                    = Len(API_COLUMN_NAMES) + Len(EnumOf(cfg.recipe))

\* a formatter with one of six categories selected, on a table that already
\* has a column of that category's name
C10_Witness ==
    /\ Formatted
    /\ cfg.recipe = "entity"
    /\ cfg.entity_types = {"ANATOMY"}
    /\ "medical_entity_api_entity_type_anatomy_text" \in InputKeys
    /\ "medical_entity_api_entity_type_anatomy_text_2" \in ProducedColumns(1)
    /\ Cardinality(DescriptionKeys \ ProducedColumns(1)) = 5

\* the call whose answer a row carries (0: the row carries no answer)
AnswerOf(row) ==
    LET cell == RowGet(row, ApiColumn("response"))
    IN IF cell.t = "json" THEN Get(cell.v, "RequestId", JNum(0)).n ELSE 0

\* row i of `table` is input row i with the outcome recorded for its call
RowsInOrder(table) ==
    /\ Len(table) = NRows
    /\ \A i \in 1..NRows :
        /\ RowGet(table[i], IdColumn) = StrCell(ToString(i))
        /\ RowGet(table[i], TextColumn) = RowGet(input_df[i], TextColumn)
        /\ AnswerOf(table[i]) \in {0, i}
        /\ \A k \in Range(API_COLUMN_NAMES) :
                RowGet(table[i], ApiColumn(k)) = RowOutcome(i)[k]

(***************************************************************************)
(* C2.  Whatever the pool size and the order in which the calls end, the   *)
(* table the dispatcher returns and the table format_df returns hold input *)
(* row i, with the outcome of the call made for row i, at position i.      *)
(***************************************************************************)
C2_RowOrderPreserved ==
    /\ Dispatched => RowsInOrder(df)
    /\ Formatted => RowsInOrder(output_df)

\* two rows on two workers: the call of row 2 succeeded at once, the call of
\* row 1 only at its third try, and both answers are in the formatted table
C2_Witness ==
    /\ Formatted
    /\ NRows = 2
    /\ cfg.workers = 2
    /\ ~cfg.batch
    /\ AnswerOf(output_df[1]) = 1
    /\ AnswerOf(output_df[2]) = 2
    /\ \E w \in Workers : pool[w].task = 1 /\ pool[w].attempts = 3
    /\ \E w \in Workers : pool[w].task = 2 /\ pool[w].attempts = 1

ResponsePopulated(row) == RowGet(row, ApiColumn("response")) # EmptyString
ErrorColumns == {"error_message", "error_type", "error_raw"}
ErrorPopulated(row) == \E k \in ErrorColumns : RowGet(row, ApiColumn(k)) # EmptyString
TextOf(i) == RowGet(input_df[i], TextColumn)
TaskOf(i) == IF cfg.batch THEN ((i - 1) \div BatchSize) + 1 ELSE i

(***************************************************************************)
(* C3.  Under LOG the run never raises: no call outcome stops the          *)
(* dispatch and format_df accepts every dispatched table.  The dispatched, *)
(* the formatted and the written table have as many rows as the input      *)
(* table, whichever calls succeed, fail or leave a response that is not    *)
(* JSON.                                                                   *)
(***************************************************************************)
C3_LogKeepsEveryRow ==
    cfg.error_handling = "LOG" =>
        /\ stage # "raised"
        /\ stage = "dispatched" => format_df(api_formatter, df).ok
        /\ Dispatched => Len(df) = NRows
        /\ Formatted => Len(output_df) = NRows
        /\ written.done => Len(written.table) = NRows

\* LOG, two rows written: the call of row 1 failed, the call of row 2 succeeded
C3_Witness ==
    /\ cfg.error_handling = "LOG"
    /\ written.done
    /\ Len(written.table) = 2
    /\ ErrorPopulated(written.table[1])
    /\ ~ResponsePopulated(written.table[1])
    /\ ResponsePopulated(written.table[2])

Skipped(i) ==
    LET r == api_results[TaskOf(i)]
        pos == (i - 1) % BatchSize
    IN /\ r.st = "ok"
       /\ IF cfg.batch
          THEN /\ EntriesAt(Get(r.resp, "ResultList", JList(<<>>)), pos) = <<>>
               /\ EntriesAt(Get(r.resp, "ErrorList", JList(<<>>)), pos) = <<>>
          ELSE IsBlank(TextOf(i))

C5_BlankRowsShortCircuit ==
    \A i \in 1..NRows :
        IsBlank(TextOf(i)) =>
            /\ \A c \in client_calls : c[1] # i
            /\ Dispatched => ~ResponsePopulated(df[i]) /\ ~ErrorPopulated(df[i])
            /\ Formatted =>
                \A c \in DerivedColumns(i) : RowGet(output_df[i], c) = EmptyString

\* the same of single-row mode alone: the limiter and the retry loop are
\* wrapped around the test of the text, so a blank row can run out of tries
BlankRowsShortCircuit_SingleRow == ~cfg.batch => C5_BlankRowsShortCircuit

\* a call has failed for good; a dispatched response is not JSON
CallFailed == \E w \in Workers : pool[w].pc = "idle" /\ pool[w].last \notin {"none", "ok"}
ParseFails ==
    Dispatched /\ \E i \in DOMAIN df : RowGet(df[i], ApiColumn("response")).t # "json"

(***************************************************************************)
(* C9.  Under FAIL no outcome is recorded as an error, and once a call has *)
(* failed for good or a dispatched response is not JSON the run is raised  *)
(* or about to be: nothing is formatted, written or described.             *)
(***************************************************************************)
C9_FailWritesNothing ==
    cfg.error_handling = "FAIL" =>
        /\ \A t \in 1..NTasks : api_results[t].st # "error"
        /\ Dispatched => \A i \in DOMAIN df : ~ErrorPopulated(df[i])
        /\ CallFailed => stage = "raised" /\ df = <<>>
        /\ (CallFailed \/ ParseFails) =>
                /\ stage \in {"dispatched", "raised"}
                /\ output_df = <<>>
                /\ ~written.done
                /\ ~described.done

\* FAIL, every call returned, and the empty response of a blank row made
\* format_df raise
C9_Witness ==
    /\ cfg.error_handling = "FAIL"
    /\ stage = "raised"
    /\ df # <<>>
    /\ ~CallFailed
    /\ \E i \in DOMAIN df : IsBlank(TextOf(i)) /\ ~ResponsePopulated(df[i])
    /\ ~written.done

\* the future of worker w has completed with the exception of its last call
Propagated(w) == pool[w].pc = "idle" /\ pool[w].last \notin {"none", "ok"}

\* worker w goes to sleep for the whole delay, and wakes only when it is over
SleepsTheDelay(w) ==
    /\ (pool[w].pc # "sleep" /\ pool'[w].pc = "sleep") =>
            /\ pool'[w].wait = Period
            /\ pool'[w].last \in RETRY_EXCEPTIONS
            /\ pool'[w].attempts = pool[w].attempts + 1
    /\ (pool[w].pc = "sleep" /\ pool'[w].pc # "sleep") =>
            pool[w].wait = 0 /\ pool'[w].pc = "call"

C6_RetryState ==
    \A w \in Workers :
        /\ pool[w].attempts <= 5
        /\ pool[w].fatal <= 1
        /\ pool[w].pc = "sleep" =>
                /\ pool[w].last \in RETRY_EXCEPTIONS
                /\ pool[w].attempts < 5
                /\ pool[w].wait <= Period
        /\ pool[w].fatal = 1 => Propagated(w) /\ pool[w].last \notin RETRY_EXCEPTIONS
        /\ Propagated(w) =>
                /\ pool[w].last \in RETRY_EXCEPTIONS => pool[w].attempts = 5
                /\ pool[w].last \notin RETRY_EXCEPTIONS => pool[w].fatal = 1
                /\ IF cfg.error_handling = "FAIL"
                   THEN stage = "raised"
                   ELSE api_results[pool[w].task] =
                            [st |-> "error", err |-> pool[w].last]

RollingCount == Sum(recent, DOMAIN recent)

(***************************************************************************)
(* C7.  As claimed: in any rolling window of one period the calls let      *)
(* through number at most api_quota_rate_limit.                            *)
(***************************************************************************)
C7_RollingWindow == RollingCount <= cfg.calls

\* a call of worker w arriving with the limit of the period reached raises, and
\* is slept on and retried while tries are left
RejectedAtLimit(w) ==
    (/\ pool[w].pc = "call"
     /\ pool'[w] # pool[w]
     /\ limiter.age < Period
     /\ limiter.num_calls >= cfg.calls) =>
        /\ pool'[w].last = "RateLimitException"
        /\ pool'[w].pc = IF pool[w].tries > 1 THEN "sleep" ELSE "idle"
        /\ client_calls' = client_calls
        /\ win_admits' = win_admits

(***************************************************************************)
(* What the limiter does keep.  In each of its periods, counted from the   *)
(* first call after the last one ran out, the calls let through number at  *)
(* most api_quota_rate_limit; a call arriving after that in the same       *)
(* period is not let through: it raises, sleeps and is retried.  A rolling *)
(* window of one period holds at most twice that many.                     *)
(***************************************************************************)
FixedWindowLimit ==
    /\ [](/\ win_admits <= cfg.calls
          /\ win_admits <= limiter.num_calls
          /\ RollingCount <= 2 * cfg.calls)
    /\ [][\A w \in Workers : RejectedAtLimit(w)]_vars

\* twice the limit let through within one rolling period, across a reset
BurstAcrossReset ==
    /\ cfg.workers = 2
    /\ RollingCount = 2 * cfg.calls
    /\ win_admits = cfg.calls

EntriesFor(i, key) ==
    LET list == Get(api_results[TaskOf(i)].resp, key, JList(<<>>)).l
        pos == (i - 1) % BatchSize
    IN {k \in DOMAIN list : Get(list[k], "Index", JNull) = JNum(pos)}

ListEntry(i, key, k) == Get(api_results[TaskOf(i)].resp, key, JList(<<>>)).l[k]

(***************************************************************************)
(* C11.  After a batch call that returned a ResultList and an ErrorList,   *)
(* every row of the batch is in the dispatched table with its own outcome: *)
(* with its index in the ResultList, the entry as its response and empty   *)
(* error columns; with its index in the ErrorList, an empty response and   *)
(* the entry's ErrorMessage and ErrorCode in its error columns; with its   *)
(* index in neither, an empty response and empty error columns.            *)
(***************************************************************************)
C11_BatchUnpacked ==
    (Dispatched /\ cfg.batch) =>
        /\ Len(df) = NRows
        /\ \A i \in 1..NRows :
            api_results[TaskOf(i)].st = "ok" =>
                LET res == EntriesFor(i, "ResultList")
                    err == EntriesFor(i, "ErrorList")
                    cell(k) == RowGet(df[i], ApiColumn(k))
                IN /\ RowGet(df[i], IdColumn) = StrCell(ToString(i))
                   /\ res # {} =>
                        /\ \E k \in res : cell("response") = JsonCell(ListEntry(i, "ResultList", k))
                        /\ AnswerOf(df[i]) = i
                        /\ ~ErrorPopulated(df[i])
                   /\ (res = {} /\ err # {}) =>
                        /\ cell("response") = EmptyString
                        /\ \E k \in err :
                            /\ cell("error_message") =
                                StrCell(Get(ListEntry(i, "ErrorList", k), "ErrorMessage", JStr("")).s)
                            /\ cell("error_type") =
                                StrCell(Get(ListEntry(i, "ErrorList", k), "ErrorCode", JStr("")).s)
                        /\ cell("error_raw") # EmptyString
                   /\ (res = {} /\ err = {}) =>
                        /\ cell("response") = EmptyString
                        /\ ~ErrorPopulated(df[i])

\* one batch of two rows: the first in the ResultList, the second in the
\* ErrorList, both in the dispatched table with their own outcome
C11_Witness ==
    /\ Dispatched
    /\ cfg.batch
    /\ NRows = 2
    /\ api_results[1].st = "ok"
    /\ EntriesFor(1, "ResultList") # {} /\ ResponsePopulated(df[1])
    /\ EntriesFor(2, "ErrorList") # {} /\ ErrorPopulated(df[2])
    /\ RowGet(df[2], ApiColumn("error_type")) = StrCell("INTERNAL_SERVER_ERROR")

\* how many entity records of row i's response have text x and a selected category
OfSelectedCategory(i, x) ==
    Cardinality({k \in DOMAIN ResponseEntities(i) :
                    /\ Get(ResponseEntities(i)[k], "Text", JNull) = x
                    /\ \E name \in cfg.entity_types :
                        Get(ResponseEntities(i)[k], TagKey(cfg.recipe), JStr("")) = JStr(name)})

\* the column format_row writes for the category named `name` in row i
CategoryColumn(i, name) ==
    LET enum == EnumOf(cfg.recipe)
        m == enum[CHOOSE k \in DOMAIN enum : enum[k].name = name]
    IN generate_unique(ColumnBase(cfg.recipe, m), RowKeys(df[i]), ColumnPrefix(cfg.recipe))

(***************************************************************************)
(* C12.  The medical-entity and the named-entity formatter add to a row    *)
(* exactly one column per selected entity type and none for an unselected  *)
(* one, whatever the response holds; the texts listed in the added columns *)
(* are texts of entities of selected types only.                           *)
(***************************************************************************)
C12_SelectedColumnsOnly ==
    (Formatted /\ cfg.recipe \in {"entity", "ner"}) =>
        \A i \in DOMAIN output_df :
            /\ DerivedColumns(i) = {CategoryColumn(i, name) : name \in cfg.entity_types}
            /\ Cardinality(DerivedColumns(i)) = Cardinality(cfg.entity_types)
            /\ DerivedColumns(i) \cap UnwrittenColumns = {}
            /\ \A x \in EmittedValues(i) : Emitted(i, x) <= OfSelectedCategory(i, x)

\* ANATOMY alone is selected and the response holds one entity, of another
\* category: one column is added, and it is empty
C12_Witness ==
    /\ Formatted
    /\ cfg.recipe = "entity"
    /\ cfg.entity_types = {"ANATOMY"}
    /\ cfg.minimum_score = 0
    /\ ResponseEntities(1) = <<FmtEntity("entity", "MEDICAL_CONDITION", "a", 95)>>
    /\ Cardinality(DerivedColumns(1)) = 1
    /\ \A c \in DerivedColumns(1) : RowGet(output_df[1], c) = EmptyString

\* the positions in row i's response of the entities of the category `name`
\* whose Score is at least minimum_score
KeptPositions(i, name) ==
    {k \in DOMAIN ResponseEntities(i) :
        /\ Get(ResponseEntities(i)[k], TagKey(cfg.recipe), JStr("")) = JStr(name)
        /\ ScoreOf(ResponseEntities(i)[k]).n >= cfg.minimum_score}

\* the j-th smallest of a set of positions
NthOf(positions, j) ==
    CHOOSE k \in positions : Cardinality({x \in positions : x <= k}) = j

\* what the claim has the column of the category `name` hold in row i
TextsInOrder(i, name) ==
    LET positions == KeptPositions(i, name)
    IN IF positions = {} THEN EmptyString
       ELSE ListCell([j \in 1..Cardinality(positions) |->
                        Get(ResponseEntities(i)[NthOf(positions, j)], "Text", JStr(""))])

\* the categories the formatter of the recipe writes a column for
WrittenCategories ==
    IF cfg.recipe = "phi" THEN EnumNames(MedicalPHITypeEnum) ELSE cfg.entity_types

(***************************************************************************)
(* C15.  Every category column the PHI or the medical-entity formatter     *)
(* writes holds the Text of the response's entities of that category with  *)
(* a Score of at least minimum_score, in the order of the response, and    *)
(* the empty string when there is none.  The PHI formatter writes the      *)
(* column of every one of its seven categories.                            *)
(***************************************************************************)
C15_ColumnHoldsKeptTexts ==
    (Formatted /\ cfg.recipe \in {"phi", "entity"}) =>
        \A i \in DOMAIN output_df :
            /\ \A name \in WrittenCategories :
                /\ CategoryColumn(i, name) \in DerivedColumns(i)
                /\ RowGet(output_df[i], CategoryColumn(i, name)) = TextsInOrder(i, name)
            /\ \A c \in DerivedColumns(i) : RowGet(output_df[i], c) # ListCell(<<>>)
            /\ cfg.recipe = "phi" =>
                    Cardinality(DerivedColumns(i)) = Len(MedicalPHITypeEnum)

\* two entities of one category above the threshold: the column lists their
\* texts in the order of the response, the other columns hold the empty string
C15_Witness ==
    /\ Formatted
    /\ cfg.recipe = "phi"
    /\ cfg.minimum_score = 90
    /\ ResponseEntities(1) = <<FmtEntity("phi", "ADDRESS", "b", 95),
                               FmtEntity("phi", "ADDRESS", "a", 95)>>
    /\ RowGet(output_df[1], CategoryColumn(1, "ADDRESS"))
            = ListCell(<<JStr("b"), JStr("a")>>)
    /\ RowGet(output_df[1], CategoryColumn(1, "AGE")) = EmptyString

\* the entity records of row i's response with a Score below minimum_score and
\* a category of the recipe's own enumeration
BelowThresholdOwn(i) ==
    {k \in DOMAIN ResponseEntities(i) :
        /\ ScoreOf(ResponseEntities(i)[k]).n < cfg.minimum_score
        /\ \E name \in EnumNames(EnumOf(cfg.recipe)) :
            Get(ResponseEntities(i)[k], TagKey(cfg.recipe), JStr("")) = JStr(name)}

(***************************************************************************)
(* C16.  As claimed: the count of discarded records the PHI and the        *)
(* medical-entity formatter report for a row is the number of the          *)
(* response's entity records with a Score below minimum_score and a        *)
(* category of the formatter's own enumeration.                            *)
(***************************************************************************)
C16_DiscardedCountOwnEnum ==
    (Formatted /\ cfg.recipe \in {"phi", "entity"}) =>
        \A i \in DOMAIN output_df :
            discarded_log[i] = Cardinality(BelowThresholdOwn(i))

\* the same of the medical-entity formatter alone, whose own enumeration is
\* the one the code tests the category against
DiscardedCountOwnEnum_Entity == cfg.recipe = "entity" => C16_DiscardedCountOwnEnum

(***************************************************************************)
(* C14.  As claimed: whatever the response cell of a dispatched row holds  *)
(* (no JSON, the empty string, JSON of another shape than an answer),      *)
(* format_row of the PHI, the medical-entity and the named-entity          *)
(* formatter raises nothing but the parse error, and that only under FAIL  *)
(* on a cell that is not JSON; under LOG it returns the row, with every    *)
(* added column empty when the cell is not an answer with entities.        *)
(***************************************************************************)
C14_ClassifiedOutcome ==
    \A i \in DOMAIN df :
        LET cell == RowGet(df[i], ApiColumn("response"))
        IN /\ stage = "raised" => cfg.error_handling = "FAIL" /\ cell.t # "json"
           /\ (Formatted /\ (cell.t # "json" \/ cell.v \in FmtMisshapen(cfg.recipe))) =>
                /\ cfg.error_handling = "LOG"
                /\ \A c \in DerivedColumns(i) : RowGet(output_df[i], c) = EmptyString

\* the same without the cells that are JSON of another shape than an answer
ClassifiedOutcome_Shaped ==
    (\A i \in DOMAIN df :
        LET cell == RowGet(df[i], ApiColumn("response"))
        IN cell.t = "json" => cell.v \notin FmtMisshapen(cfg.recipe))
    => C14_ClassifiedOutcome

(***************************************************************************)
(* KeyPhraseExtractionAPIFormatter.                                        *)
(***************************************************************************)
MaxKeyPhrases == 3
MaxPhrases == 3

\* a cell that holds a number
NumCell(n) == [t |-> "num", n |-> n]

KeyPhraseExtractionAPIFormatter(input_keys, num_key_phrases, error_handling) ==
    [input_keys |-> input_keys,
     num_key_phrases |-> num_key_phrases,
     column_prefix |-> "keyphrase_api",
     error_handling |-> error_handling,
     api_column_names |-> build_unique_column_names(input_keys, "keyphrase_api")]

\* x.get("Score"): the key of the sort
SortKey(x) == Get(x, "Score", JNull)

\* the list with x put in after the last element whose key is at least x's
RECURSIVE InsertByScore(_, _)
InsertByScore(sorted, x) ==
    IF sorted = <<>> THEN <<x>>
    ELSE IF SortKey(Head(sorted)).n >= SortKey(x).n
         THEN <<Head(sorted)>> \o InsertByScore(Tail(sorted), x)
         ELSE <<x>> \o sorted

\* a sort that leaves the list as it is
SortedByScore_Unsorted(list) == list

\* sorted(list, key=lambda x: x.get("Score"), reverse=True): stable, descending
RECURSIVE SortedByScore(_)
SortedByScore(list) ==
    IF list = <<>> THEN <<>>
    ELSE InsertByScore(SortedByScore(SubSeq(list, 1, Len(list) - 1)), list[Len(list)])

\* the cell of a JSON value put into a row
CellOf(v) ==
    CASE v.j = "str" -> StrCell(v.s)
      [] v.j = "num" -> NumCell(v.n)
      [] OTHER -> NullCell

\* the loop over range(num_key_phrases), from pair n on
RECURSIVE WritePairs(_, _, _, _)
WritePairs(self, row, key_phrases, n) ==
    IF n > self.num_key_phrases THEN row
    ELSE LET keyphrase_column ==
                generate_unique("keyphrase_" \o ToString(n) \o "_text", RowKeys(row),
                                self.column_prefix)
             confidence_column ==
                generate_unique("keyphrase_" \o ToString(n) \o "_confidence",
                                RowKeys(row), self.column_prefix)
             text == IF Len(key_phrases) >= n
                     THEN CellOf(Get(key_phrases[n], "Text", JStr("")))
                     ELSE EmptyString
             confidence == IF Len(key_phrases) >= n
                           THEN CellOf(Get(key_phrases[n], "Score", JNull))
                           ELSE NullCell
         IN WritePairs(self, RowSet(RowSet(row, keyphrase_column, text),
                                    confidence_column, confidence),
                       key_phrases, n + 1)

\* KeyPhraseExtractionAPIFormatter.format_row: the row with its pairs, or the
\* exception raised
KeyPhrase_format_row(self, row) ==
    LET parsed == safe_json_loads(RowGet(row, self.api_column_names["response"]),
                                  self.error_handling)
    IN IF ~parsed.ok THEN [ok |-> FALSE, err |-> parsed.err]
       ELSE IF ~IsDict(parsed.v) THEN [ok |-> FALSE, err |-> "AttributeError"]
       ELSE LET phrases == Get(parsed.v, "KeyPhrases", JList(<<>>))
            IN IF phrases.j # "list" THEN [ok |-> FALSE, err |-> "TypeError"]
               ELSE IF \E i \in DOMAIN phrases.l : ~IsDict(phrases.l[i])
                    THEN [ok |-> FALSE, err |-> "AttributeError"]
               ELSE IF /\ Len(phrases.l) >= 2
                       /\ \E i \in DOMAIN phrases.l : ~FloatOk(SortKey(phrases.l[i]))
                    THEN [ok |-> FALSE, err |-> "TypeError"]
               ELSE [ok |-> TRUE,
                     row |-> WritePairs(self, row,
                                IF Len(phrases.l) >= 2 THEN SortedByScore(phrases.l)
                                ELSE phrases.l, 1)]

\* KeyPhraseExtractionAPIFormatter.format_df
KeyPhrase_format_df(self, table) ==
    LET rows == [i \in DOMAIN table |-> KeyPhrase_format_row(self, table[i])]
    IN IF \E i \in DOMAIN rows : ~rows[i].ok
       THEN [ok |-> FALSE,
             err |-> rows[CHOOSE i \in DOMAIN rows :
                            ~rows[i].ok /\ \A k \in 1..(i - 1) : rows[k].ok].err]
       ELSE [ok |-> TRUE,
             df |-> [i \in DOMAIN rows |->
                        move_api_columns_to_end(rows[i].row, self.input_keys)]]

(***************************************************************************)
(* KeyPhraseExtractionAPIFormatter.format_df on one dispatched row.        *)
(***************************************************************************)
keyphrase_formatter ==
    KeyPhraseExtractionAPIFormatter(InputKeys, cfg.num_key_phrases, cfg.error_handling)

\* a key phrase record; score -1 stands for a record without a Score key
KeyPhrase(text, score) ==
    IF score >= 0
    THEN JObj([k \in {"Text", "Score"} |-> IF k = "Text" THEN JStr(text) ELSE JNum(score)])
    ELSE JObj([k \in {"Text"} |-> JStr(text)])

KeyPhraseRecords ==
    {KeyPhrase(ts[1], ts[2]) : ts \in {<<"a", 50>>, <<"b", 95>>, <<"c", 95>>, <<"d", -1>>}}

KeyPhraseOutcomes ==
    {Success(EmptyString), Success(StrCell("<html>")), Success(JsonCell(EmptyObj)),
     Success(JsonCell(JObj([k \in {"KeyPhrases"} |-> JNull]))),
     Failure("msg:ClientError", "ClientError")}
    \cup {Success(JsonCell(JObj([k \in {"KeyPhrases"} |-> JList(phrases)]))) :
            phrases \in SeqsUpTo(KeyPhraseRecords, MaxPhrases)}

InitKeyPhrase ==
    /\ \E policy \in {"LOG", "FAIL"}, n \in 1..MaxKeyPhrases :
            cfg = [recipe |-> "keyphrase", error_handling |-> policy,
                   num_key_phrases |-> n]
    /\ \E others \in {<<>>, <<"keyphrase_api_keyphrase_1_text">>} :
            input_df = <<InputRow(1, StrCell("aspirin"), others)>>
    /\ \E outcome \in KeyPhraseOutcomes :
            /\ cfg.error_handling = "FAIL" => outcome.error_type = EmptyString
            /\ df = <<WithCells(input_df[1],
                        build_unique_column_names(InputKeys, "keyphrase_api"),
                        outcome, API_COLUMN_NAMES)>>
    /\ api_results = <<>>
    /\ stage = "dispatched"
    /\ FreshPool
    /\ FreshOutput

\* output_df = api_formatter.format_df(df), with the key phrase formatter
FormatKeyPhrases ==
    /\ stage = "dispatched"
    /\ LET r == KeyPhrase_format_df(keyphrase_formatter, df)
       IN IF r.ok
          THEN /\ output_df' = r.df
               /\ stage' = "formatted"
          ELSE /\ stage' = "raised"
               /\ UNCHANGED output_df
    /\ UNCHANGED <<cfg, input_df, next_task, pool, limiter, recent, win_admits,
                   api_results, client_calls, df, written, described,
                   discarded_log>>

NextKeyPhrase ==
    \/ FormatKeyPhrases
    \/ WriteWithSchema

SpecKeyPhrase == InitKeyPhrase /\ [][NextKeyPhrase]_vars

\* the key phrase records of the response the dispatched row holds
ResponseKeyPhrases ==
    LET cell == RowGet(df[1], keyphrase_formatter.api_column_names["response"])
    IN IF cell.t = "json" /\ IsDict(cell.v)
       THEN Get(cell.v, "KeyPhrases", JList(<<>>)).l
       ELSE <<>>

\* pair k of the formatted row: its text and its confidence
PairText(k) ==
    RowGet(output_df[1],
           generate_unique("keyphrase_" \o ToString(k) \o "_text", RowKeys(df[1]),
                           "keyphrase_api"))
PairConfidence(k) ==
    RowGet(output_df[1],
           generate_unique("keyphrase_" \o ToString(k) \o "_confidence", RowKeys(df[1]),
                           "keyphrase_api"))

\* the Score of a key phrase record as a cell
ScoreCell(x) == CellOf(Get(x, "Score", JNull))

(***************************************************************************)
(* C13.  KeyPhraseExtractionAPIFormatter.format_row adds N (text,          *)
(* confidence) pairs to the row.  The first min(N, number of phrases)      *)
(* pairs hold distinct phrases of the response with their Score, in        *)
(* non-increasing order of Score, and no phrase left out has a higher      *)
(* Score than one put in; every pair beyond the number of phrases is       *)
(* (empty string, null).                                                   *)
(***************************************************************************)
C13_PairsByDescendingScore ==
    (Formatted /\ cfg.recipe = "keyphrase") =>
        LET phrases == ResponseKeyPhrases
            N == cfg.num_key_phrases
            m == IF Len(phrases) < N THEN Len(phrases) ELSE N
        IN /\ Cardinality(DerivedColumns(1)) = 2 * N
           /\ \E pick \in [1..m -> DOMAIN phrases] :
                /\ \A j, k \in 1..m : j # k => pick[j] # pick[k]
                /\ \A k \in 1..m :
                    /\ PairText(k) = CellOf(Get(phrases[pick[k]], "Text", JStr("")))
                    /\ PairConfidence(k) = ScoreCell(phrases[pick[k]])
                /\ \A k \in 1..(m - 1) : PairConfidence(k).n >= PairConfidence(k + 1).n
                /\ \A k \in 1..m, j \in DOMAIN phrases :
                    (\A i \in 1..m : pick[i] # j) =>
                        ScoreCell(phrases[j]).n <= PairConfidence(k).n
           /\ \A k \in (m + 1)..N :
                PairText(k) = EmptyString /\ PairConfidence(k) = NullCell

\* N = 2 on a response of three phrases, the lowest Score first: the two pairs
\* hold the other two, in the order of the response
C13_Witness ==
    /\ Formatted
    /\ cfg.recipe = "keyphrase"
    /\ cfg.num_key_phrases = 2
    /\ ResponseKeyPhrases = <<KeyPhrase("a", 50), KeyPhrase("b", 95), KeyPhrase("c", 95)>>
    /\ PairText(1) = StrCell("b") /\ PairConfidence(1) = NumCell(95)
    /\ PairText(2) = StrCell("c") /\ PairConfidence(2) = NumCell(95)

\* three pairs asked and one phrase in the response: the pairs after the first
\* are (empty string, null)
FewerPhrasesThanPairs ==
    /\ Formatted
    /\ cfg.recipe = "keyphrase"
    /\ cfg.num_key_phrases = 3
    /\ ResponseKeyPhrases = <<KeyPhrase("a", 50)>>
    /\ PairText(3) = EmptyString /\ PairConfidence(3) = NullCell

\* the key phrase formatter raises nothing but the parse error, and that only
\* under FAIL on a cell that is not JSON
KeyPhraseClassifiedOutcome ==
    (stage = "raised" /\ cfg.recipe = "keyphrase") =>
        /\ cfg.error_handling = "FAIL"
        /\ RowGet(df[1], keyphrase_formatter.api_column_names["response"]).t # "json"
====
